---- MODULE Spec2Model ----
(***************************************************************************)
(* A model of two parts of gotham:                                         *)
(*   - gotham::state::State (src/src/state/mod.rs), the per-request store  *)
(*     holding one value per type;                                         *)
(*   - the TLS launcher (src/gotham/src/tls.rs): start,                    *)
(*     start_with_num_threads, start_on_executor, init_server and          *)
(*     bind_server_rustls.                                                 *)
(* Spec drives the store; ServerSpec and FairServerSpec drive the server.  *)
(***************************************************************************)
EXTENDS Naturals, Sequences, FiniteSets, TLC

VARIABLES
    data,       \* State.data: HashMap<TypeId, Box<Any + Send>>
    last,       \* the most recent call on the State and what it returned
    prev,       \* the call before it
    lastWrite,  \* per type: the last put/take of that type and its outcome
    entry,      \* the launcher function the application called
    caller,     \* where the calling context is
    callerSaw,  \* what the call handed back to the caller, once it has
    threads,    \* worker threads of the runtime new_runtime created (0: none)
    tasks,      \* the tasks live on the executor
    server,     \* the state of the future init_server returned
    bindResult, \* what tcp_listener(addr) resolved to, once it has
    output,     \* the output of init_server's future, once it has completed
    incoming,   \* what the listener has ready for the accept loop, in order
    closed,     \* the listener will yield nothing more
    conn,       \* per connection: its state, its peer, the errors before it
    consecErrs, \* accept errors since the last accepted socket
    log         \* the lines logged, counted per kind

storeVars == <<data, last, prev, lastWrite>>

serverVars == <<entry, caller, callerSaw, threads, tasks, server, bindResult,
                output, incoming, closed, conn, consecErrs, log>>

vars == <<storeVars, serverVars>>

(***************************************************************************)
(* Bounds.                                                                 *)
(***************************************************************************)
MaxVal == 1

\* Connections a run sees.
MaxConns == 2

\* Accept errors a run sees.
MaxAcceptErrors == 2

\* Worker threads a runtime may be given.
MaxThreads == 2

\* The types that implement StateData in the model (the doc tests use the
\* first two).
Types == {"MyStruct", "AnotherStruct", "ThirdStruct"}

\* The payload a stored struct carries (its `value` field).
Values == 0 .. MaxVal

(***************************************************************************)
(* Option<T>.                                                              *)
(***************************************************************************)
None == [tag |-> "None"]

Some(x) == [tag |-> "Some", val |-> x]

is_some(o) == o.tag = "Some"

is_none(o) == o.tag = "None"

\* Box<T>'s dereference `*b`: the value the box owns.
unbox(b) == b

\* Result::ok, on a Result encoded with tags "Ok" / "Err"
ok(r) == IF r.tag = "Ok" THEN Some(r.val) ELSE None

(***************************************************************************)
(* TypeId and Box<Any>.                                                    *)
(***************************************************************************)
\* A TypeId that does not depend on the type (every type collides).
TypeId_of_collide(T) == <<"TypeId", "Any">>

\* TypeId::of::<T>(): an opaque identity, distinct for distinct types.
TypeId_of(T) == <<"TypeId", T>>

\* The value boxed twice: what the map holds is a Box<T>, not a T.
Box_new_twice(T, t) == [type |-> <<"TypeId", "Box<T>">>, value |-> t]

\* Box::new(t) for t: T, erased to Box<Any + Send>: the box remembers the
\* dynamic type of what it holds.
Box_new(T, t) == [type |-> TypeId_of(T), value |-> t]

\* Any::is::<T>()
Any_is(b, T) == b.type = TypeId_of(T)

\* <Any>::downcast_ref::<T>(): Some(&T) when the box holds a T.
downcast_ref(b, T) == IF Any_is(b, T) THEN Some(b.value) ELSE None

\* Box<Any>::downcast::<T>(): Ok(Box<T>) when the box holds a T, else the
\* box is handed back in Err.
downcast(b, T) ==
    IF Any_is(b, T) THEN [tag |-> "Ok", val |-> b.value]
    ELSE [tag |-> "Err", val |-> b]

(***************************************************************************)
(* HashMap<TypeId, Box<Any>>: a function whose domain is the set of keys.  *)
(***************************************************************************)
HashMap_new == [k \in {} |-> None]

HashMap_insert(m, k, v) ==
    [x \in (DOMAIN m) \cup {k} |-> IF x = k THEN v ELSE m[x]]

HashMap_get(m, k) == IF k \in DOMAIN m THEN Some(m[k]) ELSE None

\* HashMap::remove: the map without the key, and the value it held.
HashMap_remove(m, k) ==
    [map |-> [x \in (DOMAIN m) \ {k} |-> m[x]],
     ret |-> HashMap_get(m, k)]

(***************************************************************************)
(* State's methods, as functions of the map.                               *)
(***************************************************************************)
\* A State created with a value already in it.
new_prefilled ==
    [k \in {<<"TypeId", "MyStruct">>} |->
        [type |-> <<"TypeId", "MyStruct">>, value |-> 0]]

\* State::new
new == HashMap_new

\* put through the entry API's or_insert: an existing value is kept.
put_keep_first(d, T, t) ==
    IF TypeId_of(T) \in DOMAIN d THEN d
    ELSE HashMap_insert(d, TypeId_of(T), Box_new(T, t))

\* State::put: the map after put(t) for t: T.
put(d, T, t) == HashMap_insert(d, TypeId_of(T), Box_new(T, t))

\* A call that panics instead of returning.
Panic == [tag |-> "Panic"]

\* borrow with unwrap() on the lookup: an absent type panics.
borrow_unwrap(d, T) ==
    IF TypeId_of(T) \in DOMAIN d
    THEN downcast_ref(d[TypeId_of(T)], T)
    ELSE Panic

\* State::borrow: Option<&T>, read as the value the reference points to.
\* (and_then: None stays None, Some(b) goes through the closure)
borrow(d, T) ==
    LET found == HashMap_get(d, TypeId_of(T))
    IN  IF is_none(found) THEN None ELSE downcast_ref(found.val, T)

\* A &mut T into the map: the slot it aliases.
RefMut(k) == [slot |-> k]

\* <Any>::downcast_mut::<T>() on the box found under key k.
downcast_mut(d, k, T) == IF Any_is(d[k], T) THEN Some(RefMut(k)) ELSE None

\* State::borrow_mut: Option<&mut T> (get_mut, then and_then(downcast_mut)).
borrow_mut(d, T) ==
    IF TypeId_of(T) \in DOMAIN d
    THEN downcast_mut(d, TypeId_of(T), T)
    ELSE None

\* Reading through a &mut T.
deref(d, r) == d[r.slot].value

\* The map after the caller assigns w through a &mut T.
deref_assign(d, r, w) ==
    IF r.slot \in DOMAIN d THEN [d EXCEPT ![r.slot].value = w] ELSE d

\* take through get(): the value is returned and the entry stays.
take_peek(d, T) ==
    LET found == HashMap_get(d, TypeId_of(T))
    IN  [map |-> d,
         ret |-> IF is_none(found) THEN None ELSE ok(downcast(found.val, T))]

\* take that empties the whole map.
take_clear(d, T) ==
    LET found == HashMap_get(d, TypeId_of(T))
    IN  [map |-> HashMap_new,
         ret |-> IF is_none(found) THEN None ELSE ok(downcast(found.val, T))]

\* State::take: the map after the call, and the Option<T> it returns
\* (remove, then and_then(downcast.ok()), then map(|b| *b)).
take(d, T) ==
    LET removed == HashMap_remove(d, TypeId_of(T))
        boxed   == IF is_none(removed.ret) THEN None
                   ELSE ok(downcast(removed.ret.val, T))
    IN  [map |-> removed.map,
         ret |-> IF is_none(boxed) THEN None ELSE Some(unbox(boxed.val))]

(***************************************************************************)
(* Calls on one State.                                                     *)
(***************************************************************************)
\* The type of a call that names none (State::new).
NoArg == "-"

\* The unit value `()`.
Unit == [tag |-> "Unit"]

\* A call: the method, its type parameter, the value passed in (put) or
\* assigned through the reference (borrow_mut) as an Option, and the result.
Call(op, T, arg, ret) == [op |-> op, ty |-> T, arg |-> arg, ret |-> ret]

StoreInit ==
    /\ data = new
    /\ last = Call("new", NoArg, None, Unit)
    /\ prev = Call("new", NoArg, None, Unit)
    /\ lastWrite = [T \in Types |-> "new"]

\* state.put(t) with t: T
Put(T, t) ==
    /\ data' = put(data, T, t)
    /\ last' = Call("put", T, Some(t), Unit)
    /\ prev' = last
    /\ lastWrite' = [lastWrite EXCEPT ![T] = "put"]
    /\ UNCHANGED serverVars

\* borrow that moves the value out of the map.
Borrow_consuming(T) ==
    /\ data' = take(data, T).map
    /\ last' = Call("borrow", T, None, borrow(data, T))
    /\ prev' = last
    /\ lastWrite' = lastWrite
    /\ UNCHANGED serverVars

\* state.borrow::<T>()
Borrow(T) ==
    /\ data' = data
    /\ last' = Call("borrow", T, None, borrow(data, T))
    /\ prev' = last
    /\ lastWrite' = lastWrite
    /\ UNCHANGED serverVars

\* borrow_mut handing out a reference to a clone: the caller's write is lost.
BorrowMut_clone(T, write, w) ==
    LET r == borrow_mut(data, T)
    IN  /\ data' = data
        /\ last' = Call("borrow_mut", T,
                        IF is_some(r) /\ write THEN Some(w) ELSE None,
                        IF is_some(r) THEN Some(deref(data, r.val)) ELSE None)
        /\ prev' = last
        /\ lastWrite' = lastWrite
        /\ UNCHANGED serverVars

\* state.borrow_mut::<T>(), after which the caller assigns w through the
\* reference when it got one (write = TRUE) or only reads it.
BorrowMut(T, write, w) ==
    LET r == borrow_mut(data, T)
    IN  /\ data' = IF is_some(r) /\ write
                   THEN deref_assign(data, r.val, w)
                   ELSE data
        /\ last' = Call("borrow_mut", T,
                        IF is_some(r) /\ write THEN Some(w) ELSE None,
                        IF is_some(r) THEN Some(deref(data, r.val)) ELSE None)
        /\ prev' = last
        /\ lastWrite' = lastWrite
        /\ UNCHANGED serverVars

\* state.take::<T>()
Take(T) ==
    LET r == take(data, T)
    IN  /\ data' = r.map
        /\ last' = Call("take", T, None, r.ret)
        /\ prev' = last
        /\ lastWrite' = [lastWrite EXCEPT
                           ![T] = IF is_some(r.ret) THEN "take_some"
                                  ELSE "take_none"]
        /\ UNCHANGED serverVars

StoreNext ==
    \/ \E T \in Types, t \in Values : Put(T, t)
    \/ \E T \in Types : Borrow(T)
    \/ \E T \in Types, write \in BOOLEAN, w \in Values : BorrowMut(T, write, w)
    \/ \E T \in Types : Take(T)

(***************************************************************************)
(* Result<T, E>.                                                           *)
(***************************************************************************)
Ok(x) == [tag |-> "Ok", val |-> x]

Err(e) == [tag |-> "Err", val |-> e]

is_ok(r) == r.tag = "Ok"

is_err(r) == r.tag = "Err"

\* .map_err(|_| ()): the error is replaced by the unit value.
map_err_unit(r) == IF is_err(r) THEN Err(Unit) ELSE r

(***************************************************************************)
(* The launcher and the server future (gotham/src/tls.rs).                 *)
(***************************************************************************)
Conns == 1 .. MaxConns

\* The task that runs init_server's future.
Bootstrap == <<"init_server", 0>>

\* The task that runs connection c.
ConnTask(c) == <<"connection", c>>

\* A peer that completes the TLS handshake, and one whose handshake fails.
Peers == {"good", "bad"}

NoConn == [state |-> "absent", peer |-> "-", errs |-> 0]

Event(kind, c) == [kind |-> kind, id |-> c]

ServerInit ==
    /\ entry = "none"
    /\ caller = "idle"
    /\ callerSaw = None
    /\ threads = 0
    /\ tasks = {}
    /\ server = "NotStarted"
    /\ bindResult = None
    /\ output = None
    /\ incoming = << >>
    /\ closed = FALSE
    /\ conn = [c \in Conns |-> NoConn]
    /\ consecErrs = 0
    /\ log = [listening |-> 0, accept_error |-> 0,
              handshake_error |-> [c \in Conns |-> 0]]

\* The executor has nothing left to run.
Idle == tasks = {}

\* executor.spawn(init_server(addr, new_handler, tls_config)): the future is
\* put on the executor; nothing of it has run when spawn returns.
spawn_init_server ==
    /\ tasks' = tasks \cup {Bootstrap}
    /\ server' = "Unbound"

\* start_with_num_threads that does not wait for the runtime.
StartWithNumThreads_no_wait(e, n) ==
    /\ caller = "idle"
    /\ entry' = e
    /\ threads' = n
    /\ spawn_init_server
    /\ caller' = "returned"
    /\ callerSaw' = Some(Unit)
    /\ UNCHANGED storeVars
    /\ UNCHANGED <<bindResult, output, incoming, closed, conn, consecErrs, log>>

\* start_with_num_threads(addr, new_handler, tls_config, n), up to where it
\* blocks: new_runtime(n), start_on_executor on its executor, and the call
\* of runtime.shutdown_on_idle(). e is the function the application called.
StartWithNumThreads(e, n) ==
    /\ caller = "idle"
    /\ entry' = e
    /\ threads' = n
    /\ spawn_init_server
    /\ caller' = "shutdown_on_idle"
    /\ UNCHANGED storeVars
    /\ UNCHANGED <<callerSaw, bindResult, output, incoming, closed, conn,
                   consecErrs, log>>

\* start(addr, new_handler, tls_config): start_with_num_threads with
\* num_cpus::get() threads.
Start(num_cpus) == StartWithNumThreads("start", num_cpus)

\* runtime.shutdown_on_idle() returns, and start_with_num_threads with it.
ShutdownOnIdleReturns ==
    /\ caller = "shutdown_on_idle"
    /\ Idle
    /\ caller' = "returned"
    /\ callerSaw' = Some(Unit)
    /\ UNCHANGED storeVars
    /\ UNCHANGED <<entry, threads, tasks, server, bindResult, output, incoming,
                   closed, conn, consecErrs, log>>

\* start_on_executor that drives the future to its end before returning.
StartOnExecutor_block_on ==
    /\ caller = "idle"
    /\ entry' = "start_on_executor"
    /\ spawn_init_server
    /\ caller' = "shutdown_on_idle"
    /\ UNCHANGED storeVars
    /\ UNCHANGED <<callerSaw, threads, bindResult, output, incoming, closed, conn,
                   consecErrs, log>>

\* start_on_executor(addr, new_handler, tls_config, executor), on an executor
\* the application owns (no runtime is created).
StartOnExecutor ==
    /\ caller = "idle"
    /\ entry' = "start_on_executor"
    /\ spawn_init_server
    /\ caller' = "returned"
    /\ callerSaw' = Some(Unit)
    /\ UNCHANGED storeVars
    /\ UNCHANGED <<threads, bindResult, output, incoming, closed, conn, consecErrs, log>>

\* The application calls init_server itself and awaits the future.
InitServer ==
    /\ caller = "idle"
    /\ entry' = "init_server"
    /\ spawn_init_server
    /\ caller' = "awaiting"
    /\ UNCHANGED storeVars
    /\ UNCHANGED <<callerSaw, threads, bindResult, output, incoming, closed,
                   conn, consecErrs, log>>

\* The awaited future has completed: the application gets its output.
AwaitReturns ==
    /\ caller = "awaiting"
    /\ is_some(output)
    /\ caller' = "returned"
    /\ callerSaw' = output
    /\ UNCHANGED storeVars
    /\ UNCHANGED <<entry, threads, tasks, server, bindResult, output, incoming,
                   closed, conn, consecErrs, log>>

\* A future whose output is the result of the chain.
init_server_output_result(r) == r

\* .then(|_| future::ready(())): whatever the chain ended with, the output
\* of init_server's future is ().
init_server_output(r) == Unit

\* init_server's future completes with the chain's result r.
complete_init_server(r) ==
    /\ server' = "Terminated"
    /\ output' = Some(init_server_output(r))
    /\ tasks' = tasks \ {Bootstrap}

\* The address logged as soon as tcp_listener resolves, bound or not.
TcpListenerResolves_log_first(r) ==
    /\ server = "Unbound"
    /\ bindResult' = Some(r)
    /\ log' = [log EXCEPT !.listening = @ + 1]
    /\ IF is_ok(map_err_unit(r))
       THEN /\ server' = "Listening"
            /\ UNCHANGED <<tasks, output>>
       ELSE complete_init_server(map_err_unit(r))
    /\ UNCHANGED storeVars
    /\ UNCHANGED <<entry, caller, callerSaw, threads, incoming, closed, conn,
                   consecErrs>>

\* bind_server_rustls called whatever tcp_listener resolved to.
TcpListenerResolves_ignore_error(r) ==
    /\ server = "Unbound"
    /\ bindResult' = Some(r)
    /\ log' = [log EXCEPT !.listening = @ + (IF is_ok(r) THEN 1 ELSE 0)]
    /\ server' = "Listening"
    /\ UNCHANGED <<tasks, output>>
    /\ UNCHANGED storeVars
    /\ UNCHANGED <<entry, caller, callerSaw, threads, incoming, closed, conn,
                   consecErrs>>

\* tcp_listener(addr) resolves to r; on Ok(listener) the and_then closure
\* logs the address and calls bind_server_rustls, on Err the chain ends.
TcpListenerResolves(r) ==
    /\ server = "Unbound"
    /\ bindResult' = Some(r)
    /\ IF is_ok(map_err_unit(r))
       THEN /\ log' = [log EXCEPT !.listening = @ + 1]
            /\ server' = "Listening"
            /\ UNCHANGED <<tasks, output>>
       ELSE /\ complete_init_server(map_err_unit(r))
            /\ UNCHANGED log
    /\ UNCHANGED storeVars
    /\ UNCHANGED <<entry, caller, callerSaw, threads, incoming, closed, conn,
                   consecErrs>>

(***************************************************************************)
(* The listener, as the accept loop sees it.                               *)
(***************************************************************************)
Bound == is_some(bindResult) /\ is_ok(bindResult.val)

Arrived == {c \in Conns : conn[c].state # "absent"}

\* A peer connects: the next socket is ready to be accepted.
PeerConnects(peer) ==
    /\ Bound /\ ~closed
    /\ Cardinality(Arrived) < MaxConns
    /\ LET c == Cardinality(Arrived) + 1
       IN  /\ conn' = [conn EXCEPT ![c] =
                         [state |-> "queued", peer |-> peer, errs |-> 0]]
           /\ incoming' = Append(incoming, Event("socket", c))
    /\ UNCHANGED storeVars
    /\ UNCHANGED <<entry, caller, callerSaw, threads, tasks, server, bindResult,
                   output, closed, consecErrs, log>>

ErrorsSeen ==
    log.accept_error + Cardinality({i \in DOMAIN incoming :
                                      incoming[i].kind = "error"})

\* accept() fails with a transient error.
AcceptFails ==
    /\ Bound /\ ~closed
    /\ ErrorsSeen < MaxAcceptErrors
    /\ incoming' = Append(incoming, Event("error", 0))
    /\ UNCHANGED storeVars
    /\ UNCHANGED <<entry, caller, callerSaw, threads, tasks, server, bindResult,
                   output, closed, conn, consecErrs, log>>

\* The listener is closed: after what is ready, it yields nothing more.
ListenerCloses ==
    /\ Bound /\ ~closed
    /\ closed' = TRUE
    /\ incoming' = Append(incoming, Event("closed", 0))
    /\ UNCHANGED storeVars
    /\ UNCHANGED <<entry, caller, callerSaw, threads, tasks, server, bindResult,
                   output, conn, consecErrs, log>>

(***************************************************************************)
(* bind_server: the accept loop.                                           *)
(***************************************************************************)
Accepting(kind) ==
    /\ server = "Listening"
    /\ incoming # << >>
    /\ Head(incoming).kind = kind

\* The loop accepts a socket and spawns its connection task, which starts
\* with the handshake; the loop goes on.
AcceptSocket ==
    /\ Accepting("socket")
    /\ LET c == Head(incoming).id
       IN  /\ conn' = [conn EXCEPT ![c].state = "handshaking",
                                   ![c].errs = consecErrs]
           /\ tasks' = tasks \cup {ConnTask(c)}
    /\ incoming' = Tail(incoming)
    /\ consecErrs' = 0
    /\ UNCHANGED storeVars
    /\ UNCHANGED <<entry, caller, callerSaw, threads, server, bindResult,
                   output, closed, log>>

\* An accept loop that ends on the first accept error.
AcceptError_fatal ==
    /\ Accepting("error")
    /\ incoming' = Tail(incoming)
    /\ log' = [log EXCEPT !.accept_error = @ + 1]
    /\ consecErrs' = consecErrs + 1
    /\ complete_init_server(map_err_unit(Err("accept")))
    /\ UNCHANGED storeVars
    /\ UNCHANGED <<entry, caller, callerSaw, threads, bindResult, closed, conn>>

\* The loop gets an accept error: it is logged and the loop goes on.
AcceptError ==
    /\ Accepting("error")
    /\ incoming' = Tail(incoming)
    /\ log' = [log EXCEPT !.accept_error = @ + 1]
    /\ consecErrs' = consecErrs + 1
    /\ UNCHANGED storeVars
    /\ UNCHANGED <<entry, caller, callerSaw, threads, tasks, server, bindResult,
                   output, closed, conn>>

\* The listener has ended: bind_server's future completes with r, and
\* init_server's future with it.
AcceptEnds(r) ==
    /\ Accepting("closed")
    /\ incoming' = Tail(incoming)
    /\ complete_init_server(map_err_unit(r))
    /\ UNCHANGED storeVars
    /\ UNCHANGED <<entry, caller, callerSaw, threads, bindResult, closed, conn,
                   consecErrs, log>>

(***************************************************************************)
(* bind_server_rustls: the handshake of one accepted socket.               *)
(***************************************************************************)
\* tls.accept(socket): the TLS handshake with the peer.
tls_accept(peer) ==
    IF peer = "good" THEN Ok("TlsStream") ELSE Err("handshake")

\* .map_ok(Compat::new)
map_ok_compat(r) == IF is_ok(r) THEN Ok(<<"Compat", r.val>>) ELSE r

\* A wrap closure that fails every handshake.
wrap_reject(peer) == [result |-> Err(Unit), logged |-> 1]

\* A wrap closure whose map_err drops the error without logging it.
wrap_silent(peer) ==
    [result |-> map_err_unit(map_ok_compat(tls_accept(peer))), logged |-> 0]

\* The closure bind_server_rustls gives bind_server: the handshake, the
\* stream wrapped on success, the error logged and replaced by () on failure.
wrap(peer) ==
    LET r == map_ok_compat(tls_accept(peer))
    IN  [result |-> map_err_unit(r),
         logged |-> IF is_err(r) THEN 1 ELSE 0]

\* The connection task of c finishes the handshake: a secured stream goes
\* to the connection handler; on failure the socket is dropped and the task
\* ends.
Handshake(c) ==
    /\ conn[c].state = "handshaking"
    /\ LET w == wrap(conn[c].peer)
       IN  /\ log' = [log EXCEPT !.handshake_error[c] = @ + w.logged]
           /\ IF is_ok(w.result)
              THEN /\ conn' = [conn EXCEPT ![c].state = "serving"]
                   /\ UNCHANGED tasks
              ELSE /\ conn' = [conn EXCEPT ![c].state = "dropped"]
                   /\ tasks' = tasks \ {ConnTask(c)}
    /\ UNCHANGED storeVars
    /\ UNCHANGED <<entry, caller, callerSaw, threads, server, bindResult,
                   output, incoming, closed, consecErrs>>

\* The connection handler of c is done: the connection closed, or its
\* processing failed; either way only this task ends.
ConnectionEnds(c, how) ==
    /\ conn[c].state = "serving"
    /\ conn' = [conn EXCEPT ![c].state = how]
    /\ tasks' = tasks \ {ConnTask(c)}
    /\ UNCHANGED storeVars
    /\ UNCHANGED <<entry, caller, callerSaw, threads, server, bindResult,
                   output, incoming, closed, consecErrs, log>>

ServerNext ==
    \/ \E n \in 1 .. MaxThreads : Start(n)
    \/ \E n \in 1 .. MaxThreads : StartWithNumThreads("start_with_num_threads", n)
    \/ StartOnExecutor
    \/ InitServer
    \/ ShutdownOnIdleReturns
    \/ AwaitReturns
    \/ \E r \in {Ok("TcpListener"), Err("io::Error")} : TcpListenerResolves(r)
    \/ \E peer \in Peers : PeerConnects(peer)
    \/ AcceptFails
    \/ ListenerCloses
    \/ AcceptSocket
    \/ AcceptError
    \/ \E r \in {Ok(Unit), Err(Unit)} : AcceptEnds(r)
    \/ \E c \in Conns : Handshake(c)
    \/ \E c \in Conns, how \in {"closed", "faulted"} : ConnectionEnds(c, how)

\* What the executor guarantees: a task that can take a step takes it.
ServerFairness ==
    /\ WF_vars(\E r \in {Ok("TcpListener"), Err("io::Error")} :
                 TcpListenerResolves(r))
    /\ WF_vars(AcceptSocket)
    /\ WF_vars(AcceptError)
    /\ WF_vars(\E r \in {Ok(Unit), Err(Unit)} : AcceptEnds(r))
    /\ \A c \in Conns : WF_vars(Handshake(c))
    /\ WF_vars(ShutdownOnIdleReturns)
    /\ WF_vars(AwaitReturns)

Init == StoreInit /\ ServerInit

Next == StoreNext

Spec == Init /\ [][Next]_vars

ServerSpec == Init /\ [][ServerNext]_vars

FairServerSpec == ServerSpec /\ ServerFairness

(***************************************************************************)
(* Properties of the store.                                                *)
(***************************************************************************)
\* The calls that read or remove, and never insert.
Readers == {"borrow", "borrow_mut", "take"}

\* The number of entries of the map that hold a value of type T.
EntriesOf(d, T) == Cardinality({k \in DOMAIN d : Any_is(d[k], T)})

\* T has no live value: never put, or taken since the last put.
Absent(T) == lastWrite[T] \in {"new", "take_some", "take_none"}

\* C1 (single slot per type): after put(a: T) directly followed by
\* put(b: T), borrow::<T>() gives b, not a, and the State holds exactly one
\* entry for T; and a borrow::<T>() called right after a put(b: T) returns b.
C1_SingleSlotPerType ==
    /\ (prev.op = "put" /\ last.op = "put" /\ prev.ty = last.ty) =>
          /\ borrow(data, last.ty) = last.arg
          /\ (prev.arg # last.arg => borrow(data, last.ty) # prev.arg)
          /\ EntriesOf(data, last.ty) = 1
    /\ (prev.op = "put" /\ last.op = "borrow" /\ prev.ty = last.ty) =>
          last.ret = prev.arg

C1_Witness ==
    /\ prev.op = "put" /\ last.op = "put" /\ prev.ty = last.ty
    /\ prev.arg # last.arg
    /\ borrow(data, last.ty) = last.arg
    /\ Cardinality(DOMAIN data) = 2

C3_IsolationAcrossTypes ==
    [][last'.op = "put" =>
         \A T2 \in Types \ {last'.ty} : borrow(data', T2) = borrow(data, T2)
      ]_storeVars

C3_Witness ==
    /\ prev.op = "put" /\ last.op = "put" /\ prev.ty # last.ty
    /\ borrow(data, prev.ty) = prev.arg
    /\ borrow(data, last.ty) = last.arg
    /\ \E T \in Types : is_none(borrow(data, T))

\* C8 (absence is not an error): for a type with no live value, borrow,
\* borrow_mut and take each return None (they do not panic) and leave the
\* whole map as it was.
C8_AbsenceIsNotAnError ==
    [][\A T \in Types :
         (Absent(T) /\ last'.ty = T /\ last'.op \in Readers) =>
            /\ last'.ret = None
            /\ data' = data
      ]_storeVars

C8_Witness ==
    /\ last.op = "take" /\ last.ret = None
    /\ last.ty \in Types
    /\ lastWrite[last.ty] = "take_none"
    /\ prev.op = "put" /\ prev.ty # last.ty
    /\ borrow(data, prev.ty) = prev.arg

\* C9 (borrow_mut mutates in place): when T is present, what the caller
\* assigns through the reference from borrow_mut::<T>() is what borrow::<T>()
\* and take::<T>() then give; the entry for T stays, and every other entry is
\* unchanged.
C9_BorrowMutInPlace ==
    [][(last'.op = "borrow_mut" /\ is_some(last'.ret) /\ is_some(last'.arg)) =>
         /\ borrow(data', last'.ty) = last'.arg
         /\ take(data', last'.ty).ret = last'.arg
         /\ DOMAIN data' = DOMAIN data
         /\ \A k \in DOMAIN data : k # TypeId_of(last'.ty) => data'[k] = data[k]
      ]_storeVars

C9_Witness ==
    /\ last.op = "borrow_mut" /\ is_some(last.ret) /\ is_some(last.arg)
    /\ last.ret # last.arg
    /\ borrow(data, last.ty) = last.arg
    /\ Cardinality(DOMAIN data) >= 2

\* C15 (borrow is a pure read): borrow::<T>() leaves the State exactly as it
\* was, whether T is present or not, and returns what the map holds for T;
\* so two borrow::<T>() calls in a row return equal results.
C15_BorrowIsPureRead ==
    /\ [][last'.op = "borrow" =>
            /\ data' = data
            /\ lastWrite' = lastWrite
            /\ last'.ret = borrow(data', last'.ty)
         ]_storeVars
    /\ []((prev.op = "borrow" /\ last.op = "borrow" /\ prev.ty = last.ty)
            => prev.ret = last.ret)

C15_Witness ==
    /\ prev.op = "borrow" /\ last.op = "borrow" /\ prev.ty = last.ty
    /\ is_some(last.ret)
    /\ \E T \in Types : is_none(borrow(data, T))
    /\ Cardinality(DOMAIN data) = 2

\* C16 (take returns what borrow saw and removes only T): when T is present,
\* take::<T>() returns the value borrow::<T>() would have returned just
\* before (the last value put, or the one last assigned through borrow_mut),
\* removes the entry for T and leaves every other entry as it was.
C16_TakeReturnsBorrowed ==
    /\ [][(last'.op = "take" /\ lastWrite[last'.ty] = "put") =>
            /\ is_some(last'.ret)
            /\ last'.ret = borrow(data, last'.ty)
            /\ DOMAIN data' = (DOMAIN data) \ {TypeId_of(last'.ty)}
            /\ \A k \in DOMAIN data' : data'[k] = data[k]
         ]_storeVars
    /\ []((last.op = "take" /\ prev.ty = last.ty /\ is_some(prev.arg))
            => last.ret = prev.arg)

C16_Witness ==
    /\ last.op = "take" /\ is_some(last.ret)
    /\ prev.op = "borrow_mut" /\ prev.ty = last.ty
    /\ is_some(prev.arg) /\ prev.arg # prev.ret
    /\ last.ret = prev.arg
    /\ Cardinality(DOMAIN data) = 2

\* C17 (key and value agree on the type): every entry stored under the
\* TypeId of T holds a box whose dynamic type is T, so for a key that is in
\* the map the downcast of borrow, borrow_mut and take succeeds; and a take
\* that removed an entry returned its value.
C17_KeyValueTypeConsistency ==
    /\ [](\A k \in DOMAIN data : data[k].type = k)
    /\ [](\A T \in Types :
            TypeId_of(T) \in DOMAIN data =>
               /\ is_some(borrow(data, T))
               /\ is_some(borrow_mut(data, T))
               /\ is_some(take(data, T).ret))
    /\ [][(last'.op = "take" /\ DOMAIN data' # DOMAIN data) =>
            is_some(last'.ret)]_storeVars

C17_Witness ==
    /\ last.op = "take" /\ is_some(last.ret)
    /\ prev.op = "borrow_mut" /\ is_some(prev.ret)
    /\ Cardinality(DOMAIN data) = 2

\* C18 (presence follows the last put or take of that type): after any
\* sequence of calls on a State made by new(), borrow::<T>() is non-empty
\* exactly when a put::<T>() has occurred and no take::<T>() came after the
\* last one; on the fresh State it is empty for every type.
C18_PresenceFollowsLastWrite ==
    /\ \A T \in Types : is_some(borrow(data, T)) <=> lastWrite[T] = "put"
    /\ last.op = "new" => \A T \in Types : borrow(data, T) = None

C18_Witness ==
    /\ \E T \in Types : lastWrite[T] = "put" /\ is_some(borrow(data, T))
    /\ \E T \in Types : lastWrite[T] = "take_some" /\ is_none(borrow(data, T))
    /\ \E T \in Types : lastWrite[T] = "new" /\ is_none(borrow(data, T))
    /\ last.op = "borrow_mut" /\ is_some(last.arg)

(***************************************************************************)
(* Properties of the launcher and the server.                              *)
(***************************************************************************)
BindFailed == is_some(bindResult) /\ is_err(bindResult.val)

\* Connection c waits in the listener for the accept loop.
Queued(c) == conn[c].state = "queued"

\* Connection c has arrived, from a peer that completes the handshake.
WellFormed(c) == conn[c].state # "absent" /\ conn[c].peer = "good"

\* Connection c has been handed to its connection handler.
Handled(c) == conn[c].state \in {"serving", "closed", "faulted"}

\* C4 (a fatal startup error surfaces): when tcp_listener fails, the caller
\* of the launcher gets back an outcome other than that of a successful
\* start.
C4_StartupErrorSurfaces ==
    (BindFailed /\ caller = "returned") => callerSaw # Some(Unit)

\* C5 (handshake isolation): a failed handshake ends only its own connection
\* task, with one error line: the accept loop, the server future, what the
\* listener has ready and every other connection are untouched; and a
\* well-formed connection waiting in the listener is handed to the
\* connection handler whatever happens to the others (it does not stay
\* short of the handler for ever).
C5_HandshakeIsolation ==
    /\ [][\A c \in Conns :
            (conn[c].state = "handshaking" /\ conn'[c].state = "dropped") =>
               /\ server' = server
               /\ output' = output
               /\ incoming' = incoming
               /\ tasks' = tasks \ {ConnTask(c)}
               /\ \A d \in Conns \ {c} : conn'[d] = conn[d]
               /\ log'.handshake_error[c] = log.handshake_error[c] + 1
         ]_vars
    /\ \A c \in Conns : []<>(WellFormed(c) => Handled(c))

C5_Witness ==
    \E c, d \in Conns :
       /\ conn[c].peer = "bad" /\ conn[c].state = "dropped"
       /\ conn[d].peer = "good" /\ conn[d].state = "serving"
       /\ c < d
       /\ server = "Listening"

\* C6 (start_with_num_threads blocks until idle): the call spawns the
\* bootstrap task on its new runtime and blocks; it has not returned while
\* any task is live, and once the executor is idle it returns.
C6_BlocksUntilIdle ==
    /\ [][(entry = "none" /\ entry' \in {"start", "start_with_num_threads"}) =>
            (Bootstrap \in tasks' /\ caller' = "shutdown_on_idle")]_vars
    /\ []((entry \in {"start", "start_with_num_threads"} /\ caller = "returned")
            => (Idle /\ server = "Terminated"))
    /\ (caller = "shutdown_on_idle" /\ Idle) ~> (caller = "returned")

C6_Witness ==
    /\ entry = "start_with_num_threads"
    /\ caller = "returned"
    /\ \E c \in Conns : conn[c].state = "closed"
    /\ \E c \in Conns : conn[c].state = "dropped"

\* C7 (start_on_executor does not block): the call puts the bootstrap task
\* on the executor and returns while the bind has not been tried, nothing
\* has been accepted and the accept loop has not begun; its caller is never
\* left waiting.
C7_StartOnExecutorDoesNotBlock ==
    /\ [][(entry = "none" /\ entry' = "start_on_executor") =>
            /\ caller' = "returned"
            /\ Bootstrap \in tasks'
            /\ server' = "Unbound"
            /\ bindResult' = None
            /\ \A c \in Conns : conn'[c].state = "absent"
         ]_vars
    /\ [](entry = "start_on_executor" => caller = "returned")

C7_Witness ==
    /\ entry = "start_on_executor"
    /\ caller = "returned"
    /\ server = "Unbound"
    /\ Bootstrap \in tasks

\* C10 (accept-loop resilience): an accept error is logged and leaves the
\* accept loop running, however many came before it; and every connection
\* that waits in the listener is dispatched to the handshake (it does not
\* stay queued for ever), a well-formed one then to the connection handler.
C10_AcceptLoopResilience ==
    /\ [][log'.accept_error # log.accept_error =>
            /\ log'.accept_error = log.accept_error + 1
            /\ consecErrs' = consecErrs + 1
            /\ server = "Listening" /\ server' = "Listening"
            /\ Bootstrap \in tasks'
            /\ output' = None
            /\ conn' = conn
         ]_vars
    /\ \A c \in Conns :
          []<>(/\ ~Queued(c)
               /\ WellFormed(c) => conn[c].state \in {"serving", "closed", "faulted"})

C10_Witness ==
    \E c \in Conns :
       /\ conn[c].errs = MaxAcceptErrors
       /\ conn[c].state = "serving"
       /\ log.accept_error = MaxAcceptErrors
       /\ server = "Listening"

\* The connections the accept loop has taken from the listener.
Accepted == {c \in Conns : conn[c].state \notin {"absent", "queued"}}

\* C11 (the listening line): it is logged at most once, and exactly when the
\* bind has succeeded; it is logged in the step that takes the server future
\* from Unbound to Listening, so the accept loop is not running and no
\* connection has been accepted without it.
C11_ListeningLoggedOnce ==
    /\ [](log.listening = (IF Bound THEN 1 ELSE 0))
    /\ []((server = "Listening" \/ Accepted # {}) => log.listening = 1)
    /\ [][log'.listening # log.listening =>
            /\ server = "Unbound" /\ server' = "Listening"
            /\ ~Bound /\ Bound'
            /\ Accepted' = {}
         ]_vars

C11_Witness ==
    /\ log.listening = 1
    /\ server = "Terminated"
    /\ Cardinality(Accepted) = MaxConns

\* C12 (the two outcomes of a handshake): a socket given to the acceptor
\* ends either secured, with no error line, or failed, with exactly one
\* error line and the socket dropped; a dropped socket never reaches the
\* connection handler.
C12_HandshakeOutcomes ==
    /\ [](\A c \in Conns :
            /\ Handled(c) => log.handshake_error[c] = 0
            /\ conn[c].state = "dropped" => log.handshake_error[c] = 1
            /\ conn[c].state \in {"absent", "queued", "handshaking"}
                  => log.handshake_error[c] = 0)
    /\ [][\A c \in Conns :
            /\ (conn[c].state = "handshaking" /\ conn'[c] # conn[c])
                  => conn'[c].state \in {"serving", "dropped"}
            /\ conn[c].state = "dropped" => conn'[c].state = "dropped"
         ]_vars

C12_Witness ==
    \E c, d \in Conns :
       /\ conn[c].state = "dropped" /\ log.handshake_error[c] = 1
       /\ conn[d].state = "closed" /\ log.handshake_error[d] = 0

\* C13 (the final result is swallowed): the future of init_server completes
\* with () and nothing else, whether the bind failed or the accept loop
\* ended, cleanly or with an error; that is what whoever awaits it gets.
C13_OutputIsUnit ==
    /\ [](is_some(output) => output = Some(Unit))
    /\ [](is_some(output) <=> server = "Terminated")
    /\ []((entry = "init_server" /\ caller = "returned")
            => callerSaw = Some(Unit))

C13_Witness ==
    /\ entry = "init_server" /\ caller = "returned"
    /\ callerSaw = Some(Unit)
    /\ Bound /\ closed /\ server = "Terminated"

\* C14 (a failed bind starts nothing): once tcp_listener has failed the
\* server future has terminated without reaching Listening: its task is
\* gone, nothing was logged, no connection was accepted or even queued, and
\* no connection task exists.
C14_BindFailureStartsNothing ==
    BindFailed =>
       /\ server = "Terminated"
       /\ tasks = {}
       /\ is_some(output)
       /\ incoming = << >>
       /\ \A c \in Conns : conn[c] = NoConn
       /\ log.listening = 0 /\ log.accept_error = 0
       /\ \A c \in Conns : log.handshake_error[c] = 0

C14_Witness ==
    /\ BindFailed
    /\ entry = "start_with_num_threads"
    /\ caller = "returned"

====
